---- MODULE Spec2Model ----
(***************************************************************************)
(* Parallel bitonic sort (src/src/fourth.rs): sort / sort_by validate the  *)
(* length, do_sort builds a bitonic sequence from an ascending and a       *)
(* descending half, sub_sort merges it, compare_and_swap exchanges x[i]    *)
(* and x[mid+i].  Every call of do_sort / sub_sort is a frame; the frames  *)
(* of a rayon::join run interleaved, one loop iteration of                 *)
(* compare_and_swap per step.                                              *)
(***************************************************************************)
EXTENDS Integers, Sequences, FiniteSets, TLC

VARIABLES x, input, call, threshold, comparator, frames, top, result, ncmp

vars == <<x, input, call, threshold, comparator, frames, top, result, ncmp>>

----------------------------------------------------------------------------
(* Bounds of the explored inputs *)

MaxLen == 4
MaxVal == 1

(* const PARALLEL_THRESHOLD: usize = 4096 *)
PARALLEL_THRESHOLD == 4096

(* tests::sort_u32_ascending / sort_u32_descending *)
Example8 == <<10, 30, 11, 20, 4, 330, 21, 110>>
(* tests::sort_to_fail *)
Example3 == <<10, 30, 11>>
(* tests::sort_students_by_age_ascending: a student is encoded as          *)
(* 2 * age + b, the comparator by_key compares the ages.                   *)
Students4 == <<32, 29, 30, 35>>
(* distinct elements that by_key reports Equal: keys 1, 0, 1, 0 *)
Ties4 == <<3, 0, 2, 1>>

Values == 0..MaxVal

RECURSIVE SeqsOfLen(_)
SeqsOfLen(n) ==
    IF n = 0 THEN {<<>>}
    ELSE {Append(s, v) : s \in SeqsOfLen(n - 1), v \in Values}

ShortInputs ==
    UNION {SeqsOfLen(n) : n \in 0..MaxLen} \cup {Example3, Students4, Ties4}

Calls == {[api |-> "sort", arg |-> "Ascending"],
          [api |-> "sort", arg |-> "Descending"],
          [api |-> "sort_by", arg |-> "by_key"],
          [api |-> "sort_by", arg |-> "always_greater"]}

(* The threshold is a compile-time constant.  Besides the constant itself  *)
(* the model runs the same code with the constant lowered, so that the     *)
(* rayon::join branches are taken on the short slices explored here: 1     *)
(* forks at every split, 2 and 4 fork at the upper splits only.            *)
Scenarios ==
    (ShortInputs \X Calls \X {1, PARALLEL_THRESHOLD})
    \cup ({Example8} \X Calls \X {4, PARALLEL_THRESHOLD})
    \cup ({Example8} \X {c \in Calls : c.api = "sort"} \X {2})

----------------------------------------------------------------------------
(* Comparators *)

(* Ord::cmp on integers *)
Cmp(a, b) == IF a < b THEN "Less" ELSE IF a > b THEN "Greater" ELSE "Equal"

(* The closures handed to sort_by: |a, b| a.cmp(b), |a, b| b.cmp(a),       *)
(* |a, b| a.age.cmp(&b.age), and a closure that is no order at all.        *)
Compare(c, a, b) ==
    CASE c = "cmp" -> Cmp(a, b)
      [] c = "rev" -> Cmp(b, a)
      [] c = "by_key" -> Cmp(a \div 2, b \div 2)
      [] OTHER -> "Greater"

(* match *order { Ascending => a.cmp(b), Descending => b.cmp(a) } *)
OrderComparator(order) == IF order = "Ascending" THEN "cmp" ELSE "rev"

----------------------------------------------------------------------------
(* usize::is_power_of_two: count_ones() == 1 *)

RECURSIVE CountOnes(_)
CountOnes(n) == IF n = 0 THEN 0 ELSE (n % 2) + CountOnes(n \div 2)

IsPowerOfTwoNonZero(n) == n # 0
IsPowerOfTwoOrZero(n) == CountOnes(n) <= 1
IsPowerOfTwo(n) == CountOnes(n) = 1

----------------------------------------------------------------------------
(* Slices are index ranges [lo, hi) of the backing vector (0-based). *)

SliceLen(f) == f.hi - f.lo
MidPoint(f) == SliceLen(f) \div 2

(* x.split_at_mut(mid_point) / &mut x[..mid_point], &mut x[mid_point..] *)
FirstHalf(lo, hi) == <<lo, lo + (hi - lo) \div 2>>
SecondHalfAliased(lo, hi) == <<lo, lo + (hi - lo) \div 2>>
SecondHalf(lo, hi) == <<lo + (hi - lo) \div 2, hi>>

(* do_sort(first, true, ..), do_sort(second, false, ..) *)
BuildDirectionBoth(k) == TRUE
BuildDirection(k) == (k = 1)

(* sub_sort(first, forward, ..), sub_sort(second, forward, ..) *)
MergeDirectionFlipped(forward, k) == IF k = 2 THEN ~forward ELSE forward
MergeDirection(forward, k) == forward

(* let swap_condition = if forward { Greater } else { Less } *)
SwapConditionInverted(forward) == IF forward THEN "Less" ELSE "Greater"
SwapConditionForward(forward) == "Greater"
SwapCondition(forward) == IF forward THEN "Greater" ELSE "Less"

(* x.swap(i, mid_point + i), on 0-based indices a and b *)
CopyElem(s, a, b) == [s EXCEPT ![a + 1] = s[b + 1]]
SwapElems(s, a, b) == [s EXCEPT ![a + 1] = s[b + 1], ![b + 1] = s[a + 1]]

----------------------------------------------------------------------------
(* The same functions run on one thread (the else branches), as functions  *)
(* from sequences to sequences.                                            *)

RECURSIVE CompareAndSwapSeq(_, _, _, _)
CompareAndSwapSeq(s, i, forward, c) ==
    LET mid == Len(s) \div 2
    IN  IF ~(i < mid) THEN s
        ELSE CompareAndSwapSeq(
                 IF Compare(c, s[i + 1], s[mid + i + 1]) = SwapCondition(forward)
                 THEN SwapElems(s, i, mid + i) ELSE s,
                 i + 1, forward, c)

RECURSIVE SubSortSeq(_, _, _)
SubSortSeq(s, forward, c) ==
    IF ~(Len(s) > 1) THEN s
    ELSE LET t == CompareAndSwapSeq(s, 0, forward, c)
             mid == Len(t) \div 2
         IN  SubSortSeq(SubSeq(t, 1, mid), MergeDirection(forward, 1), c)
             \o SubSortSeq(SubSeq(t, mid + 1, Len(t)), MergeDirection(forward, 2), c)

RECURSIVE DoSortSeq(_, _, _)
DoSortSeq(s, forward, c) ==
    IF ~(Len(s) > 1) THEN s
    ELSE LET mid == Len(s) \div 2
         IN  SubSortSeq(DoSortSeq(SubSeq(s, 1, mid), BuildDirection(1), c)
                        \o DoSortSeq(SubSeq(s, mid + 1, Len(s)), BuildDirection(2), c),
                        forward, c)

----------------------------------------------------------------------------
(* Frames *)

Frame(p, fn, r, fwd, pc) ==
    [path |-> p, fn |-> fn, lo |-> r[1], hi |-> r[2], forward |-> fwd,
     pc |-> pc, i |-> 0]

Alive(p) == \E g \in frames : g.path = p
Child(f, k) == Append(f.path, k)

(* rayon::join returns when both closures have returned *)
JoinDoneAny(f) == ~Alive(Child(f, 1)) \/ ~Alive(Child(f, 2))
JoinDone(f) == ~Alive(Child(f, 1)) /\ ~Alive(Child(f, 2))

DoSortChild(f, k) ==
    Frame(Child(f, k), "do_sort",
          IF k = 1 THEN FirstHalf(f.lo, f.hi) ELSE SecondHalf(f.lo, f.hi),
          BuildDirection(k), "start")

SubSortChild(f, k) ==
    Frame(Child(f, k), "sub_sort",
          IF k = 1 THEN FirstHalf(f.lo, f.hi) ELSE SecondHalf(f.lo, f.hi),
          MergeDirection(f.forward, k), "cas")

MergeCall(f) == Frame(Child(f, 3), "sub_sort", <<f.lo, f.hi>>, f.forward, "cas")

Goto(f, pc) == [f EXCEPT !.pc = pc]

----------------------------------------------------------------------------
Init ==
    /\ \E sc \in Scenarios :
          /\ input = sc[1]
          /\ call = sc[2]
          /\ threshold = sc[3]
    /\ x = input
    /\ comparator = "unset"
    /\ frames = {}
    /\ top = "idle"
    /\ result = <<>>
    /\ ncmp = 0

(* sort_by: the length check, then do_sort(x, true, comparator) *)
SortByBody ==
    IF IsPowerOfTwo(Len(x))
    THEN /\ frames' = {Frame(<<>>, "do_sort", <<0, Len(x)>>, TRUE, "start")}
         /\ top' = "running"
         /\ UNCHANGED result
    ELSE /\ result' = <<"Err", Len(x)>>
         /\ top' = "done"
         /\ UNCHANGED frames

Sort ==
    /\ top = "idle"
    /\ call.api = "sort"
    /\ comparator' = OrderComparator(call.arg)
    /\ SortByBody
    /\ UNCHANGED <<x, input, call, threshold, ncmp>>

SortBy ==
    /\ top = "idle"
    /\ call.api = "sort_by"
    /\ comparator' = call.arg
    /\ SortByBody
    /\ UNCHANGED <<x, input, call, threshold, ncmp>>

(* do_sort returned to sort_by: Ok(()) *)
SortByOk ==
    /\ top = "running"
    /\ ~Alive(<<>>)
    /\ result' = <<"Ok">>
    /\ top' = "done"
    /\ UNCHANGED <<x, input, call, threshold, comparator, frames, ncmp>>

Ctl == <<x, input, call, threshold, comparator, top, result, ncmp>>

(* do_sort, x.len() <= 1 *)
DoSortBase(f) ==
    /\ f.fn = "do_sort" /\ f.pc = "start"
    /\ ~(SliceLen(f) > 1)
    /\ frames' = frames \ {f}
    /\ UNCHANGED Ctl

(* do_sort, mid_point >= PARALLEL_THRESHOLD: rayon::join of the two builds *)
DoSortFork(f) ==
    /\ f.fn = "do_sort" /\ f.pc = "start"
    /\ SliceLen(f) > 1
    /\ MidPoint(f) >= threshold
    /\ frames' = (frames \ {f}) \cup {Goto(f, "join"), DoSortChild(f, 1), DoSortChild(f, 2)}
    /\ UNCHANGED Ctl

(* do_sort, below the threshold: do_sort(&mut x[..mid_point], true, ..) *)
DoSortCallFirst(f) ==
    /\ f.fn = "do_sort" /\ f.pc = "start"
    /\ SliceLen(f) > 1
    /\ ~(MidPoint(f) >= threshold)
    /\ frames' = (frames \ {f}) \cup {Goto(f, "first"), DoSortChild(f, 1)}
    /\ UNCHANGED Ctl

(* do_sort(&mut x[mid_point..], false, ..) once the first call returned *)
DoSortCallSecond(f) ==
    /\ f.fn = "do_sort" /\ f.pc = "first"
    /\ ~Alive(Child(f, 1))
    /\ frames' = (frames \ {f}) \cup {Goto(f, "second"), DoSortChild(f, 2)}
    /\ UNCHANGED Ctl

(* sub_sort(x, forward, comparator) after the join / the second call *)
DoSortMerge(f) ==
    /\ f.fn = "do_sort"
    /\ \/ f.pc = "join" /\ JoinDone(f)
       \/ f.pc = "second" /\ ~Alive(Child(f, 2))
    /\ frames' = (frames \ {f}) \cup {Goto(f, "merge"), MergeCall(f)}
    /\ UNCHANGED Ctl

(* do_sort returns after sub_sort returned *)
DoSortReturn(f) ==
    /\ f.fn = "do_sort" /\ f.pc = "merge"
    /\ ~Alive(Child(f, 3))
    /\ frames' = frames \ {f}
    /\ UNCHANGED Ctl

(* sub_sort, x.len() <= 1 *)
SubSortBase(f) ==
    /\ f.fn = "sub_sort" /\ f.pc = "cas"
    /\ ~(SliceLen(f) > 1)
    /\ frames' = frames \ {f}
    /\ UNCHANGED Ctl

(* compare_and_swap: one iteration of for i in 0..mid_point *)
CompareAndSwapStep(f) ==
    /\ f.fn = "sub_sort" /\ f.pc = "cas"
    /\ SliceLen(f) > 1
    /\ f.i < MidPoint(f)
    /\ LET a == f.lo + f.i
           b == f.lo + MidPoint(f) + f.i
       IN  x' = IF Compare(comparator, x[a + 1], x[b + 1]) = SwapCondition(f.forward)
                THEN SwapElems(x, a, b)
                ELSE x
    /\ ncmp' = ncmp + 1
    /\ frames' = (frames \ {f}) \cup {[f EXCEPT !.i = f.i + 1]}
    /\ UNCHANGED <<input, call, threshold, comparator, top, result>>

(* sub_sort, mid_point >= PARALLEL_THRESHOLD: rayon::join of the two merges *)
SubSortFork(f) ==
    /\ f.fn = "sub_sort" /\ f.pc = "cas"
    /\ SliceLen(f) > 1
    /\ f.i = MidPoint(f)
    /\ MidPoint(f) >= threshold
    /\ frames' = (frames \ {f}) \cup {Goto(f, "join"), SubSortChild(f, 1), SubSortChild(f, 2)}
    /\ UNCHANGED Ctl

(* sub_sort, below the threshold: sub_sort(first, forward, ..) *)
SubSortCallFirst(f) ==
    /\ f.fn = "sub_sort" /\ f.pc = "cas"
    /\ SliceLen(f) > 1
    /\ f.i = MidPoint(f)
    /\ ~(MidPoint(f) >= threshold)
    /\ frames' = (frames \ {f}) \cup {Goto(f, "first"), SubSortChild(f, 1)}
    /\ UNCHANGED Ctl

(* sub_sort(second, forward, ..) once the first call returned *)
SubSortCallSecond(f) ==
    /\ f.fn = "sub_sort" /\ f.pc = "first"
    /\ ~Alive(Child(f, 1))
    /\ frames' = (frames \ {f}) \cup {Goto(f, "second"), SubSortChild(f, 2)}
    /\ UNCHANGED Ctl

(* sub_sort returns after the join / the second call *)
SubSortReturn(f) ==
    /\ f.fn = "sub_sort"
    /\ \/ f.pc = "join" /\ JoinDone(f)
       \/ f.pc = "second" /\ ~Alive(Child(f, 2))
    /\ frames' = frames \ {f}
    /\ UNCHANGED Ctl

Next ==
    \/ Sort
    \/ SortBy
    \/ SortByOk
    \/ \E f \in frames : DoSortBase(f)
    \/ \E f \in frames : DoSortFork(f)
    \/ \E f \in frames : DoSortCallFirst(f)
    \/ \E f \in frames : DoSortCallSecond(f)
    \/ \E f \in frames : DoSortMerge(f)
    \/ \E f \in frames : DoSortReturn(f)
    \/ \E f \in frames : SubSortBase(f)
    \/ \E f \in frames : CompareAndSwapStep(f)
    \/ \E f \in frames : SubSortFork(f)
    \/ \E f \in frames : SubSortCallFirst(f)
    \/ \E f \in frames : SubSortCallSecond(f)
    \/ \E f \in frames : SubSortReturn(f)

Spec == Init /\ [][Next]_vars

----------------------------------------------------------------------------
(* Vocabulary of the properties *)

Done == top = "done"
Ok == result = <<"Ok">>

(* n = 2^k for some k >= 0 *)
PowerOfTwo(n) == \E k \in 0..n : 2^k = n

(* utils.rs: x.windows(2).all(|pair| pair[0] <= pair[1]) and >= *)
is_sorted_ascending(s) == \A k \in 1..(Len(s) - 1) : s[k] <= s[k + 1]
is_sorted_descending(s) == \A k \in 1..(Len(s) - 1) : s[k] >= s[k + 1]

Count(s, v) == Cardinality({k \in 1..Len(s) : s[k] = v})
SameMultiset(s, t) ==
    /\ Len(s) = Len(t)
    /\ \A k \in 1..Len(s) : Count(s, s[k]) = Count(t, s[k])

Elems(s) == {s[k] : k \in 1..Len(s)}

(* the comparator is a total order (ties allowed) on the elements of s *)
TotalOrderOn(c, s) ==
    /\ \A a, b \in Elems(s) :
          /\ Compare(c, a, b) = "Less" <=> Compare(c, b, a) = "Greater"
          /\ Compare(c, a, b) = "Equal" <=> Compare(c, b, a) = "Equal"
    /\ \A a, b, d \in Elems(s) :
          Compare(c, a, b) # "Greater" /\ Compare(c, b, d) # "Greater"
              => Compare(c, a, d) # "Greater"

(* x[lo..hi) ordered by c: forward (never Greater) or backward (never Less) *)
Ordered(c, s, lo, hi, forward) ==
    \A k \in (lo + 1)..(hi - 1) :
        Compare(c, s[k], s[k + 1]) # (IF forward THEN "Greater" ELSE "Less")

Range(f) == f.lo..(f.hi - 1)
IsPrefix(p, q) == Len(p) <= Len(q) /\ SubSeq(q, 1, Len(p)) = p
Concurrent(f, g) == ~IsPrefix(f.path, g.path) /\ ~IsPrefix(g.path, f.path)
ParentPath(p) == SubSeq(p, 1, Len(p) - 1)
Last(p) == p[Len(p)]

(* the indices the next step of a frame reads and writes *)
Touches(f) ==
    IF f.fn = "sub_sort" /\ f.pc = "cas" /\ SliceLen(f) > 1 /\ f.i < MidPoint(f)
    THEN {f.lo + f.i, f.lo + MidPoint(f) + f.i}
    ELSE {}

----------------------------------------------------------------------------
(* C1: for every input whose length is a power of two, sort returns Ok(()) *)
(* and leaves x non-decreasing for Ascending and non-increasing for        *)
(* Descending; the vector of the unit tests ends as the tests expect.      *)
C1_SortOrders ==
    Done /\ call.api = "sort" /\ PowerOfTwo(Len(input)) =>
        /\ Ok
        /\ call.arg = "Ascending" => is_sorted_ascending(x)
        /\ call.arg = "Descending" => is_sorted_descending(x)
        /\ input = Example8 /\ call.arg = "Ascending" =>
               x = <<4, 10, 11, 20, 21, 30, 110, 330>>
        /\ input = Example8 /\ call.arg = "Descending" =>
               x = <<330, 110, 30, 21, 20, 11, 10, 4>>

C1_Witness ==
    /\ Done /\ Ok
    /\ call = [api |-> "sort", arg |-> "Descending"]
    /\ input = Example8
    /\ x = <<330, 110, 30, 21, 20, 11, 10, 4>>

(* C2: in every state of a sort or sort_by call, x holds the elements of   *)
(* the input with the same multiplicities, whatever the comparator.        *)
C2_MultisetPreserved == SameMultiset(x, input)

C2_Witness ==
    /\ top = "running"
    /\ comparator = "always_greater"
    /\ x # input
    /\ \E f \in frames : f.fn = "sub_sort" /\ f.i > 0

(* C3: when the length is not a power of two, the call ends with the error *)
(* that carries the length, no frame is ever entered, no comparison is     *)
(* made and x stays the input.                                             *)
C3_ShapeError ==
    ~PowerOfTwo(Len(input)) =>
        /\ frames = {}
        /\ ncmp = 0
        /\ x = input
        /\ top = "idle" \/ (Done /\ result = <<"Err", Len(input)>>)

C3_Witness ==
    /\ Done
    /\ input = Example3
    /\ call.arg = "Descending"
    /\ result = <<"Err", 3>>
    /\ x = Example3

(* C4 as stated: lengths 0 and 1 are both accepted, without any work. *)
C4_Original ==
    Done /\ Len(input) <= 1 => Ok /\ x = input /\ ncmp = 0

(* C4 amended: length 1 is accepted (Ok, no comparison, x unchanged);      *)
(* length 0 is rejected with the error carrying length 0, x unchanged.     *)
C4_LengthZeroOne ==
    /\ Done /\ Len(input) = 1 => Ok /\ x = input /\ ncmp = 0
    /\ Done /\ Len(input) = 0 => result = <<"Err", 0>> /\ x = input /\ ncmp = 0

C4_Witness ==
    /\ Done /\ Ok
    /\ Len(input) = 1
    /\ call.api = "sort_by"

(* C5: whatever the threshold and the interleaving of the joined calls,    *)
(* the final x is the result of the single-threaded run.                   *)
C5_Deterministic ==
    Done /\ Ok => x = DoSortSeq(input, TRUE, comparator)

C5_Witness ==
    /\ Done /\ Ok
    /\ threshold = 2
    /\ input = Example8
    /\ x # input

(* C6: sort on an input already sorted in the requested order returns      *)
(* Ok(()) and leaves every position as it was; sorting the output of sort  *)
(* again gives the same output.                                            *)
C6_Idempotent ==
    Done /\ call.api = "sort" /\ PowerOfTwo(Len(input)) =>
        /\ Ok
        /\ call.arg = "Ascending" /\ is_sorted_ascending(input) => x = input
        /\ call.arg = "Descending" /\ is_sorted_descending(input) => x = input
        /\ DoSortSeq(x, TRUE, comparator) = x

C6_Witness ==
    /\ Done /\ Ok
    /\ call = [api |-> "sort", arg |-> "Descending"]
    /\ input = <<1, 1, 0, 0>>
    /\ x = input
    /\ ncmp > 0

(* C7: with a comparator that is a total order (ties allowed) sort_by      *)
(* returns Ok(()) and no adjacent pair of x compares Greater; without ties *)
(* x[k] is the element with exactly k - 1 elements before it in the order. *)
C7_SortBy ==
    Done /\ PowerOfTwo(Len(input)) /\ TotalOrderOn(comparator, input) =>
        /\ Ok
        /\ Ordered(comparator, x, 0, Len(x), TRUE)
        /\ (\A j, k \in 1..Len(input) :
                j # k => Compare(comparator, input[j], input[k]) # "Equal")
             => \A k \in 1..Len(x) :
                    Cardinality({j \in 1..Len(input) :
                        Compare(comparator, input[j], x[k]) = "Less"}) = k - 1
        /\ input = Students4 /\ comparator = "by_key" => x = <<29, 30, 32, 35>>

C7_Witness ==
    /\ Done /\ Ok
    /\ call = [api |-> "sort_by", arg |-> "by_key"]
    /\ input = Ties4
    /\ x # input

(* C8: the children of a call get the lower half [lo, mid) and the upper   *)
(* half [mid, hi) of its slice, every frame touches only indices of its    *)
(* own slice, and frames that run concurrently have disjoint slices and    *)
(* never touch a common index.                                             *)
C8_Disjoint ==
    \A f \in frames :
        /\ Touches(f) \subseteq Range(f)
        /\ \A g \in frames \ {f} :
              /\ g.path = f.path \o <<1>> =>
                     g.lo = f.lo /\ g.hi = f.lo + (f.hi - f.lo) \div 2
              /\ g.path = f.path \o <<2>> =>
                     g.lo = f.lo + (f.hi - f.lo) \div 2 /\ g.hi = f.hi
              /\ Touches(f) \cap Touches(g) = {}
              /\ Concurrent(f, g) => Range(f) \cap Range(g) = {}

C8_Witness ==
    \E f, g \in frames :
        /\ Concurrent(f, g)
        /\ Touches(f) # {} /\ Touches(g) # {}
        /\ SliceLen(f) = 4 /\ SliceLen(g) = 2

(* C9: while a frame lives its caller lives; the merge of do_sort is       *)
(* entered only when neither build is still running; the half-merges of    *)
(* sub_sort exist only after its compare_and_swap loop has ended.          *)
C9_JoinBarrier ==
    \A f \in frames :
        /\ f.path # <<>> => Alive(ParentPath(f.path))
        /\ f.fn = "do_sort" /\ (f.pc = "merge" \/ Alive(Child(f, 3))) =>
               ~Alive(Child(f, 1)) /\ ~Alive(Child(f, 2))
        /\ f.fn = "do_sort" /\ f.pc = "second" => ~Alive(Child(f, 1))
        /\ f.fn = "sub_sort" /\ (Alive(Child(f, 1)) \/ Alive(Child(f, 2))) =>
               f.i = MidPoint(f)
        /\ f.fn = "sub_sort" /\ f.pc = "second" => ~Alive(Child(f, 1))

C9_Witness ==
    \E f \in frames :
        /\ f.fn = "do_sort" /\ f.pc = "merge"
        /\ MidPoint(f) >= threshold
        /\ SliceLen(f) = 4
        /\ \E g \in frames :
              /\ g.path = Child(f, 3) /\ g.pc = "join"
              /\ Alive(Child(g, 1)) /\ Alive(Child(g, 2))

(* C10: with a total-order comparator, when do_sort enters sub_sort on a   *)
(* slice longer than 1 the lower half is ordered forward and the upper     *)
(* half backward, and when that sub_sort has returned the slice is ordered *)
(* in the direction of the do_sort call.                                   *)
C10_BitonicPreMerge ==
    \A f \in frames :
        /\ f.fn = "sub_sort" /\ Last(f.path) = 3 /\ f.pc = "cas" /\ f.i = 0
           /\ SliceLen(f) > 1 /\ TotalOrderOn(comparator, input) =>
               /\ Ordered(comparator, x, f.lo, f.lo + MidPoint(f), TRUE)
               /\ Ordered(comparator, x, f.lo + MidPoint(f), f.hi, FALSE)
        /\ f.fn = "do_sort" /\ f.pc = "merge" /\ ~Alive(Child(f, 3))
           /\ TotalOrderOn(comparator, input) =>
               Ordered(comparator, x, f.lo, f.hi, f.forward)

C10_Witness ==
    \E f \in frames :
        /\ f.fn = "sub_sort" /\ f.path = <<2, 3>> /\ f.pc = "cas" /\ f.i = 0
        /\ ~f.forward
        /\ input = Example8
        /\ comparator = "cmp"
        /\ x[5] < x[6] /\ x[7] > x[8]

====
